---- MODULE Spec2Model ----
(***************************************************************************)
(* Model of the graph construction engine of vs-graph.                     *)
(*                                                                         *)
(*   src/src/extension.ts   buildGraph: traversal, import edges, manifest  *)
(*                          injection, orphan pruning                      *)
(*   src/src/fileParser.ts  buildFileGraph: the second traversal, which    *)
(*                          only collects file nodes                       *)
(*                                                                         *)
(* A path is a sequence of names (its segments, joined by "/" in the       *)
(* program).  A node id and an import specifier are paths too, so that the *)
(* specifier "lib" and the relative path of the folder lib are the same    *)
(* string, as they are in the program.                                     *)
(*                                                                         *)
(* A source text is a sequence of statements.  A statement is a one-line   *)
(* static import (import x from 's'), a require call, or other code.       *)
(***************************************************************************)
EXTENDS Naturals, Sequences, FiniteSets

VARIABLES
    workspaceFolders, \* TRUE when a workspace folder is open
    builder,          \* "buildGraph" (extension.ts) or "buildFileGraph" (fileParser.ts)
    tree,             \* the real paths below the root that exist
    reverse,          \* the order in which the OS lists a directory
    gitignore,        \* <root>/.gitignore: [exists, patterns]
    packageJson,      \* <root>/package.json: [exists, valid, dependencies]
    content,          \* source text of every source file
    unreadable,       \* real paths of files whose read fails (EACCES)
    pc,               \* position of the build
    ig,               \* the patterns loaded in the ignore matcher
    stack,            \* active traverseDirectory calls: [dir, files, i]
    nodes,            \* buildGraph: nodes (nodeMap holds the same objects by id)
    links,            \* buildGraph: links
    fgNodes,          \* buildFileGraph: FileGraph.nodes, in insertion order
    result,           \* the returned graph
    error,            \* the exception that ended the build, or "none"
    fsLog             \* the readdirSync and readFileSync calls made, in order

config == <<workspaceFolders, builder, tree, reverse, gitignore, packageJson,
            content, unreadable>>
vars == <<workspaceFolders, builder, tree, reverse, gitignore, packageJson,
          content, unreadable, pc, ig, stack, nodes, links, fgNodes, result,
          error, fsLog>>

----------------------------------------------------------------------------
(* Bounds *)

\* Symbolic links the OS follows in one path before stat fails with ELOOP.
MaxSymlinks == 2

----------------------------------------------------------------------------
(* The file system *)

RootPath == <<"/ws">>

\* The names a directory listing is ordered by.
NameOrder == <<"a.ts", "b.ts", "c.ts", "dist", "lib", "m.js", "node_modules",
               "r.md", "u.js", "up", "v.tsx">>

Dirs == {<<"lib">>, <<"dist">>, <<"node_modules">>}
Symlinks == {<<"lib", "up">>}
\* lib/up -> lib: an entry that resolves to its own parent directory.
LinkTarget(p) == <<"lib">>

LoneProject == {<<"a.ts">>}
FullProject ==
    {<<"a.ts">>, <<"u.js">>, <<"v.tsx">>, <<"r.md">>,
     <<"lib">>, <<"lib", "b.ts">>,
     <<"dist">>, <<"dist", "c.ts">>,
     <<"node_modules">>, <<"node_modules", "m.js">>}
CycleProject == FullProject \cup Symlinks
Projects == {LoneProject, FullProject, CycleProject}

Last(p) == p[Len(p)]

RECURSIVE Resolve(_, _)
Resolve(done, rest) ==
    IF rest = <<>> THEN done
    ELSE LET q == Append(done, Head(rest))
         IN  IF q \in Symlinks THEN Resolve(LinkTarget(q), Tail(rest))
             ELSE Resolve(q, Tail(rest))

\* The real path a literal path (relative to the root) resolves to.
RealPath(rel) == Resolve(<<>>, rel)

RECURSIVE CountLinks(_, _)
CountLinks(done, rest) ==
    IF rest = <<>> THEN 0
    ELSE LET q == Append(done, Head(rest))
         IN  IF q \in Symlinks THEN 1 + CountLinks(LinkTarget(q), Tail(rest))
             ELSE CountLinks(q, Tail(rest))

\* Symbolic links followed when the OS resolves the literal path.
SymlinkCount(rel) == CountLinks(<<>>, rel)

RECURSIVE Reverse(_)
Reverse(s) == IF s = <<>> THEN <<>> ELSE Append(Reverse(Tail(s)), Head(s))

\* path.join(dir, file)
Join(dir, file) == Append(dir, file)

\* path.relative(rootPath, filePath), for a path below the root
Relative(root, p) == SubSeq(p, Len(root) + 1, Len(p))

\* path.extname(file)
ExtName(file) ==
    CASE file \in {"a.ts", "b.ts", "c.ts"} -> ".ts"
      [] file \in {"m.js", "u.js"} -> ".js"
      [] file = "v.tsx" -> ".tsx"
      [] file = "r.md" -> ".md"
      [] OTHER -> ""

\* fs.readdirSync(dir): the names in the real directory, in the OS's order.
ReadDir(t, rev, dir) ==
    LET real == RealPath(Relative(RootPath, dir))
        asc == SelectSeq(NameOrder, LAMBDA n : Append(real, n) \in t)
    IN  IF rev THEN Reverse(asc) ELSE asc

\* fs.statSync(p).isDirectory(): stat follows symbolic links.
StatIsDirectory(p) == RealPath(Relative(RootPath, p)) \in Dirs

\* fs.statSync(p) fails with ELOOP on too many levels of symbolic links.
StatThrows(p) == SymlinkCount(Relative(RootPath, p)) > MaxSymlinks

\* Dirent.isDirectory() and Dirent.isFile(): the entry itself, links not followed.
DirentIsDirectory(p) == Relative(RootPath, p) \in Dirs
DirentIsFile(p) ==
    LET rel == Relative(RootPath, p)
    IN  rel \notin Dirs /\ rel \notin Symlinks

----------------------------------------------------------------------------
(* Source texts *)

Import(s) == [kind |-> "import", spec |-> s]
Require(s) == [kind |-> "require", spec |-> s]
Code == [kind |-> "code", spec |-> <<>>]

SourceFiles ==
    {<<"a.ts">>, <<"u.js">>, <<"v.tsx">>, <<"lib", "b.ts">>,
     <<"dist", "c.ts">>, <<"node_modules", "m.js">>}

ContentsOf(f) ==
    CASE f = <<"a.ts">> ->
           { <<>>,
             <<Code, Require(<<"fs">>)>>,
             <<Import(<<"react">>)>>,
             <<Import(<<"lib">>), Code, Import(<<"lib">>)>>,
             <<Import(<<"u.js">>), Require(<<"fs">>), Import(<<"react">>)>> }
      [] f = <<"u.js">> ->
           { <<Code>>,
             <<Import(<<"react">>), Import(<<"a.ts">>)>> }
      [] f = <<"v.tsx">> -> { <<Import(<<"react">>)>> }
      [] f = <<"lib", "b.ts">> -> { <<Import(<<".", "b">>), Import(<<"lib">>)>> }
      [] f = <<"dist", "c.ts">> -> { <<Import(<<"react">>), Import(<<"lib">>)>> }
      [] OTHER -> { <<Import(<<"react">>)>> }

\* The capture group of every match of /import\s+.*?from\s+['"](.+?)['"]/g.
RECURSIVE parseImports(_)
parseImports(text) ==
    IF text = <<>> THEN <<>>
    ELSE IF Head(text).kind = "import"
         THEN <<Head(text).spec>> \o parseImports(Tail(text))
         ELSE parseImports(Tail(text))

\* fs.readFileSync(filePath, 'utf8')
ReadFile(c, p) == c[RealPath(Relative(RootPath, p))]

----------------------------------------------------------------------------
(* Ignore Matcher: the ignore package, for patterns that are a bare name   *)
(* ("dist") or a directory-only name ("dist/").                            *)

Pattern(name, dirOnly) == [name |-> name, dirOnly |-> dirOnly]

\* Mutation of Ignores: only the path itself is tested, not its directories.
IgnoresSelfOnly(patterns, rel) ==
    \E pat \in patterns : ~pat.dirOnly /\ pat.name = Last(rel)

\* ig.ignores(relativePath).  The path is given without a trailing slash, so
\* it is tested as a file: a directory-only pattern does not match the path
\* itself, but every path below a matched directory is ignored.
Ignores(patterns, rel) ==
    \/ \E k \in 1..(Len(rel) - 1) : \E pat \in patterns : pat.name = rel[k]
    \/ \E pat \in patterns : ~pat.dirOnly /\ pat.name = Last(rel)

\* extension.ts: ig.ignores(relativePath) || file === 'node_modules'
IgnoredEntry(patterns, rel, file) ==
    Ignores(patterns, rel) \/ file = "node_modules"

----------------------------------------------------------------------------
(* Graph Model of buildGraph *)

Node(id, type, isExternal) ==
    [id |-> id, imports |-> <<>>, isExternal |-> isExternal, type |-> type]

Link(source, target) == [source |-> source, target |-> target]

\* nodeMap.has(id): nodeMap and nodes always hold the same node objects.
NodeMapHas(ns, id) == \E i \in DOMAIN ns : ns[i].id = id

\* Mutation of addNode: the nodeMap.has(id) test is lost.
addNodeAlways(ns, id, type, isExternal) ==
    Append(ns, Node(id, type, isExternal))

\* Mutation of addNode: a later registration overwrites the kind and the
\* isExternal flag of the node already registered.
addNodeLastWins(ns, id, type, isExternal) ==
    IF ~NodeMapHas(ns, id) THEN Append(ns, Node(id, type, isExternal))
    ELSE [i \in DOMAIN ns |->
             IF ns[i].id = id
             THEN [ns[i] EXCEPT !.type = type, !.isExternal = isExternal]
             ELSE ns[i]]

\* addNode(id, type, isExternal): the node list after the call.
addNode(ns, id, type, isExternal) ==
    IF ~NodeMapHas(ns, id) THEN Append(ns, Node(id, type, isExternal)) ELSE ns

\* node.imports = imports, on the node addNode returned
SetImports(ns, id, imports) ==
    [i \in DOMAIN ns |->
        IF ns[i].id = id THEN [ns[i] EXCEPT !.imports = imports] ELSE ns[i]]

\* Mutation of PushLink: a link already in the list is not pushed again.
PushLinkOnce(ls, source, target) ==
    IF \E i \in DOMAIN ls : ls[i] = Link(source, target) THEN ls
    ELSE Append(ls, Link(source, target))

\* links.push({ source, target })
PushLink(ls, source, target) == Append(ls, Link(source, target))

\* for (const imp of imports) { addNode(imp, 'dependency', true); links.push(...) }
RECURSIVE AddImports(_, _, _)
AddImports(g, source, imports) ==
    IF imports = <<>> THEN g
    ELSE AddImports(
             [nodes |-> addNode(g.nodes, Head(imports), "dependency", TRUE),
              links |-> PushLink(g.links, source, Head(imports))],
             source, Tail(imports))

\* dependencies.forEach(dep => addNode(dep, 'dependency', true))
RECURSIVE AddDependencies(_, _)
AddDependencies(ns, deps) ==
    IF deps = <<>> THEN ns
    ELSE AddDependencies(addNode(ns, Head(deps), "dependency", TRUE), Tail(deps))

\* Mutation of ConnectedNodes: only the sources of the links are collected.
ConnectedSources(ls) == {ls[i].source : i \in DOMAIN ls}

\* new Set(links.flatMap(link => [link.source, link.target]))
ConnectedNodes(ls) ==
    {ls[i].source : i \in DOMAIN ls} \cup {ls[i].target : i \in DOMAIN ls}

\* Mutation of PruneNodes: nothing is filtered out.
KeepAllNodes(ns, ls) == ns

\* nodes.filter(node => connectedNodes.has(node.id))
PruneNodes(ns, ls) == SelectSeq(ns, LAMBDA n : n.id \in ConnectedNodes(ls))

\* Mutation of PrunedGraph: repeated links are dropped from the result.
RECURSIVE UniqueLinks(_)
UniqueLinks(ls) ==
    IF ls = <<>> THEN <<>>
    ELSE LET front == UniqueLinks(SubSeq(ls, 1, Len(ls) - 1))
         IN  IF \E i \in DOMAIN front : front[i] = ls[Len(ls)] THEN front
             ELSE Append(front, ls[Len(ls)])
PrunedGraphUniqueLinks(ns, ls) ==
    [nodes |-> SelectSeq(ns, LAMBDA n : n.id \in
                   {ls[i].source : i \in DOMAIN ls} \cup {ls[i].target : i \in DOMAIN ls}),
     links |-> UniqueLinks(ls)]

\* { nodes: nodes.filter(...), links }
PrunedGraph(ns, ls) == [nodes |-> PruneNodes(ns, ls), links |-> ls]

EmptyGraph == [nodes |-> <<>>, links |-> <<>>]

----------------------------------------------------------------------------
(* Graph Model of buildFileGraph *)

\* FileGraph.addNode: this.nodes.set(id, { id, label, imports }).  A Map keeps
\* the position of a key that is set again.
FileGraphAddNode(fg, filePath, imports) ==
    LET node == [id |-> filePath, label |-> Last(filePath), imports |-> imports]
    IN  IF \E i \in DOMAIN fg : fg[i].id = filePath
        THEN [i \in DOMAIN fg |-> IF fg[i].id = filePath THEN node ELSE fg[i]]
        ELSE Append(fg, node)

\* The import declarations of the syntax tree, in source order.
RECURSIVE parseImportsAst(_)
parseImportsAst(text) ==
    IF text = <<>> THEN <<>>
    ELSE IF Head(text).kind = "import"
         THEN <<Head(text).spec>> \o parseImportsAst(Tail(text))
         ELSE parseImportsAst(Tail(text))

----------------------------------------------------------------------------
(* Initial state *)

GitignoreFiles ==
    { [exists |-> FALSE, patterns |-> {}],
      [exists |-> TRUE, patterns |-> {}],
      [exists |-> TRUE, patterns |-> {Pattern("dist", TRUE)}],
      [exists |-> TRUE, patterns |-> {Pattern("dist", FALSE)}] }

Manifests ==
    { [exists |-> FALSE, valid |-> FALSE, dependencies |-> <<>>],
      [exists |-> TRUE, valid |-> FALSE, dependencies |-> <<>>],
      [exists |-> TRUE, valid |-> TRUE, dependencies |-> <<>>],
      [exists |-> TRUE, valid |-> TRUE, dependencies |-> <<(<<"react">>)>>],
      [exists |-> TRUE, valid |-> TRUE,
       dependencies |-> <<(<<"react">>), <<"lib">>, <<"u.js">>, <<"lodash">>>>] }

DefaultGitignore == [exists |-> TRUE, patterns |-> {}]
DefaultManifest == [exists |-> FALSE, valid |-> FALSE, dependencies |-> <<>>]
DefaultContent == [f \in SourceFiles |-> CHOOSE c \in ContentsOf(f) : TRUE]

Init ==
    /\ workspaceFolders \in BOOLEAN
    /\ builder \in {"buildGraph", "buildFileGraph"}
    /\ tree \in Projects
    /\ reverse \in BOOLEAN
    /\ gitignore \in GitignoreFiles
    /\ packageJson \in Manifests
    /\ \E ca \in ContentsOf(<<"a.ts">>), cu \in ContentsOf(<<"u.js">>) :
          content = [f \in SourceFiles |->
                        IF f = <<"a.ts">> THEN ca
                        ELSE IF f = <<"u.js">> THEN cu
                        ELSE DefaultContent[f]]
    /\ unreadable \in {{}, {<<"u.js">>}}
    \* configurations that differ only in what the build never looks at
    /\ ~workspaceFolders =>
          /\ tree = LoneProject /\ ~reverse /\ gitignore = DefaultGitignore
          /\ packageJson = DefaultManifest /\ content = DefaultContent
    /\ tree = LoneProject =>
          /\ content[<<"u.js">>] = DefaultContent[<<"u.js">>]
          /\ unreadable = {}
          /\ ~reverse
    /\ builder = "buildFileGraph" => packageJson = DefaultManifest
    /\ pc = "start"
    /\ ig = {}
    /\ stack = <<>>
    /\ nodes = <<>>
    /\ links = <<>>
    /\ fgNodes = <<>>
    /\ result = EmptyGraph
    /\ error = "none"
    /\ fsLog = <<>>

----------------------------------------------------------------------------
(* The traversal state shared by the two builders *)

Top == stack[Len(stack)]
InLoop == stack # <<>> /\ Top.i <= Len(Top.files)
file == Top.files[Top.i]
filePath == Join(Top.dir, file)
relativePath == Relative(RootPath, filePath)

\* A traverseDirectory(dir) call up to its loop: files = fs.readdirSync(dir).
Frame(dir) == [dir |-> dir, files |-> ReadDir(tree, reverse, dir), i |-> 1]
LogReaddir(dir) == Append(fsLog, [op |-> "readdir", path |-> dir])
LogReadFile(p) == Append(fsLog, [op |-> "readFile", path |-> p])

\* The loop moves to its next entry.
Continue == [stack EXCEPT ![Len(stack)].i = @ + 1]

Throw(e) ==
    /\ pc' = "threw"
    /\ error' = e
    /\ UNCHANGED <<ig, stack, nodes, links, fgNodes, result>>

----------------------------------------------------------------------------
(* buildGraph, extension.ts *)

\* No workspace folder: an error message and the empty graph.
NoWorkspace ==
    /\ builder = "buildGraph" /\ pc = "start"
    /\ ~workspaceFolders
    /\ pc' = "returned"
    /\ result' = EmptyGraph
    /\ UNCHANGED <<config, ig, stack, nodes, links, fgNodes, error, fsLog>>

\* ignore().add(fs.readFileSync(<root>/.gitignore)) on a missing file: ENOENT.
LoadIgnoreThrows ==
    /\ builder = "buildGraph" /\ pc = "start"
    /\ workspaceFolders
    /\ ~gitignore.exists
    /\ Throw("ENOENT")
    /\ UNCHANGED <<config, fsLog>>

\* The patterns are loaded and traverseDirectory(rootPath) is called.
LoadIgnore ==
    /\ builder = "buildGraph" /\ pc = "start"
    /\ workspaceFolders
    /\ gitignore.exists
    /\ ig' = gitignore.patterns
    /\ stack' = <<Frame(RootPath)>>
    /\ fsLog' = LogReaddir(RootPath)
    /\ pc' = "traverse"
    /\ UNCHANGED <<config, nodes, links, fgNodes, result, error>>

\* if (ig.ignores(relativePath) || file === 'node_modules') continue;
SkipIgnored ==
    /\ builder = "buildGraph" /\ pc = "traverse" /\ InLoop
    /\ IgnoredEntry(ig, relativePath, file)
    /\ stack' = Continue
    /\ UNCHANGED <<config, pc, ig, nodes, links, fgNodes, result, error, fsLog>>

\* fs.statSync(filePath) fails: too many levels of symbolic links.
StatFails ==
    /\ builder = "buildGraph" /\ pc = "traverse" /\ InLoop
    /\ ~IgnoredEntry(ig, relativePath, file)
    /\ StatThrows(filePath)
    /\ Throw("ELOOP")
    /\ UNCHANGED <<config, fsLog>>

\* A directory: addNode(relativePath, 'folder'); traverseDirectory(filePath).
EnterDirectory ==
    /\ builder = "buildGraph" /\ pc = "traverse" /\ InLoop
    /\ ~IgnoredEntry(ig, relativePath, file)
    /\ ~StatThrows(filePath)
    /\ StatIsDirectory(filePath)
    /\ nodes' = addNode(nodes, relativePath, "folder", FALSE)
    /\ stack' = Append(Continue, Frame(filePath))
    /\ fsLog' = LogReaddir(filePath)
    /\ UNCHANGED <<config, pc, ig, links, fgNodes, result, error>>

\* The extensions buildGraph scans.
IsSourceFile(name) == ExtName(name) = ".ts" \/ ExtName(name) = ".js"

\* The node and the edges of one source file: lines 64 to 72.
RegisterFile(ns, ls, rel, text) ==
    LET imports == parseImports(text)
        withFile == SetImports(addNode(ns, rel, "file", FALSE), rel, imports)
    IN  AddImports([nodes |-> withFile, links |-> ls], rel, imports)

\* A .ts or .js file that can be read.
VisitSourceFile ==
    /\ builder = "buildGraph" /\ pc = "traverse" /\ InLoop
    /\ ~IgnoredEntry(ig, relativePath, file)
    /\ ~StatThrows(filePath)
    /\ ~StatIsDirectory(filePath)
    /\ IsSourceFile(file)
    /\ RealPath(relativePath) \notin unreadable
    /\ LET g == RegisterFile(nodes, links, relativePath, ReadFile(content, filePath))
       IN  /\ nodes' = g.nodes
           /\ links' = g.links
    /\ fsLog' = LogReadFile(filePath)
    /\ stack' = Continue
    /\ UNCHANGED <<config, pc, ig, fgNodes, result, error>>

\* fs.readFileSync(filePath) fails on a file that cannot be read.
ReadFileFails ==
    /\ builder = "buildGraph" /\ pc = "traverse" /\ InLoop
    /\ ~IgnoredEntry(ig, relativePath, file)
    /\ ~StatThrows(filePath)
    /\ ~StatIsDirectory(filePath)
    /\ IsSourceFile(file)
    /\ RealPath(relativePath) \in unreadable
    /\ Throw("EACCES")
    /\ UNCHANGED <<config, fsLog>>

\* Any other file: nothing is registered.
SkipOtherFile ==
    /\ builder = "buildGraph" /\ pc = "traverse" /\ InLoop
    /\ ~IgnoredEntry(ig, relativePath, file)
    /\ ~StatThrows(filePath)
    /\ ~StatIsDirectory(filePath)
    /\ ~IsSourceFile(file)
    /\ stack' = Continue
    /\ UNCHANGED <<config, pc, ig, nodes, links, fgNodes, result, error, fsLog>>

\* The loop of a traverseDirectory call ends; the outermost call returns to
\* buildGraph.
ReturnFromDirectory ==
    /\ builder = "buildGraph" /\ pc = "traverse"
    /\ stack # <<>> /\ ~InLoop
    /\ stack' = SubSeq(stack, 1, Len(stack) - 1)
    /\ pc' = IF Len(stack) = 1 THEN "manifest" ELSE "traverse"
    /\ UNCHANGED <<config, ig, nodes, links, fgNodes, result, error, fsLog>>

\* The nodes after the package.json step, for a manifest that parses.
InjectedNodes(ns, manifest) ==
    IF manifest.exists THEN AddDependencies(ns, manifest.dependencies) ELSE ns

\* package.json is absent, or its dependencies are registered.
InjectManifest ==
    /\ builder = "buildGraph" /\ pc = "manifest"
    /\ packageJson.exists => packageJson.valid
    /\ nodes' = InjectedNodes(nodes, packageJson)
    /\ pc' = "prune"
    /\ UNCHANGED <<config, ig, stack, links, fgNodes, result, error, fsLog>>

\* JSON.parse throws on a package.json that is not JSON.
ManifestParseFails ==
    /\ builder = "buildGraph" /\ pc = "manifest"
    /\ packageJson.exists /\ ~packageJson.valid
    /\ Throw("SyntaxError")
    /\ UNCHANGED <<config, fsLog>>

\* Remove orphan nodes and return.
PruneAndReturn ==
    /\ builder = "buildGraph" /\ pc = "prune"
    /\ result' = PrunedGraph(nodes, links)
    /\ pc' = "returned"
    /\ UNCHANGED <<config, ig, stack, nodes, links, fgNodes, error, fsLog>>

----------------------------------------------------------------------------
(* buildFileGraph, fileParser.ts *)

\* The patterns of .gitignore when it exists, and always node_modules.
FgLoadIgnore ==
    /\ builder = "buildFileGraph" /\ pc = "start"
    /\ workspaceFolders
    /\ ig' = (IF gitignore.exists THEN gitignore.patterns ELSE {})
                \cup {Pattern("node_modules", FALSE)}
    /\ stack' = <<Frame(RootPath)>>
    /\ fsLog' = LogReaddir(RootPath)
    /\ pc' = "traverse"
    /\ UNCHANGED <<config, nodes, links, fgNodes, result, error>>

\* The command returns before buildFileGraph when no workspace folder is open.
FgNoWorkspace ==
    /\ builder = "buildFileGraph" /\ pc = "start"
    /\ ~workspaceFolders
    /\ pc' = "returned"
    /\ UNCHANGED <<config, ig, stack, nodes, links, fgNodes, result, error, fsLog>>

\* if (ig.ignores(relativePath)) continue;
FgSkipIgnored ==
    /\ builder = "buildFileGraph" /\ pc = "traverse" /\ InLoop
    /\ Ignores(ig, relativePath)
    /\ stack' = Continue
    /\ UNCHANGED <<config, pc, ig, nodes, links, fgNodes, result, error, fsLog>>

\* entry.isDirectory(): traverseDirectory(fullPath)
FgEnterDirectory ==
    /\ builder = "buildFileGraph" /\ pc = "traverse" /\ InLoop
    /\ ~Ignores(ig, relativePath)
    /\ DirentIsDirectory(filePath)
    /\ stack' = Append(Continue, Frame(filePath))
    /\ fsLog' = LogReaddir(filePath)
    /\ UNCHANGED <<config, pc, ig, nodes, links, fgNodes, result, error>>

\* /\.(ts|js|tsx|jsx)$/.test(entry.name)
FgIsSourceFile(name) == ExtName(name) \in {".ts", ".js", ".tsx", ".jsx"}

\* entry.isFile() with a source extension: graph.addNode(fullPath, imports)
FgVisitSourceFile ==
    /\ builder = "buildFileGraph" /\ pc = "traverse" /\ InLoop
    /\ ~Ignores(ig, relativePath)
    /\ ~DirentIsDirectory(filePath)
    /\ DirentIsFile(filePath) /\ FgIsSourceFile(file)
    /\ RealPath(relativePath) \notin unreadable
    /\ fgNodes' = FileGraphAddNode(fgNodes, filePath,
                                   parseImportsAst(ReadFile(content, filePath)))
    /\ fsLog' = LogReadFile(filePath)
    /\ stack' = Continue
    /\ UNCHANGED <<config, pc, ig, nodes, links, result, error>>

\* parseImports(fullPath): fs.readFileSync fails on a file that cannot be read.
FgReadFileFails ==
    /\ builder = "buildFileGraph" /\ pc = "traverse" /\ InLoop
    /\ ~Ignores(ig, relativePath)
    /\ ~DirentIsDirectory(filePath)
    /\ DirentIsFile(filePath) /\ FgIsSourceFile(file)
    /\ RealPath(relativePath) \in unreadable
    /\ Throw("EACCES")
    /\ UNCHANGED <<config, fsLog>>

\* A symbolic link, or a file with another extension.
FgSkipOther ==
    /\ builder = "buildFileGraph" /\ pc = "traverse" /\ InLoop
    /\ ~Ignores(ig, relativePath)
    /\ ~DirentIsDirectory(filePath)
    /\ ~(DirentIsFile(filePath) /\ FgIsSourceFile(file))
    /\ stack' = Continue
    /\ UNCHANGED <<config, pc, ig, nodes, links, fgNodes, result, error, fsLog>>

\* The loop of a traverseDirectory call ends; the outermost call returns the
\* graph.
FgReturnFromDirectory ==
    /\ builder = "buildFileGraph" /\ pc = "traverse"
    /\ stack # <<>> /\ ~InLoop
    /\ stack' = SubSeq(stack, 1, Len(stack) - 1)
    /\ pc' = IF Len(stack) = 1 THEN "returned" ELSE "traverse"
    /\ UNCHANGED <<config, ig, nodes, links, fgNodes, result, error, fsLog>>

----------------------------------------------------------------------------

Next ==
    \/ NoWorkspace
    \/ LoadIgnoreThrows
    \/ LoadIgnore
    \/ SkipIgnored
    \/ StatFails
    \/ EnterDirectory
    \/ VisitSourceFile
    \/ ReadFileFails
    \/ SkipOtherFile
    \/ ReturnFromDirectory
    \/ InjectManifest
    \/ ManifestParseFails
    \/ PruneAndReturn
    \/ FgNoWorkspace
    \/ FgLoadIgnore
    \/ FgSkipIgnored
    \/ FgEnterDirectory
    \/ FgVisitSourceFile
    \/ FgReadFileFails
    \/ FgSkipOther
    \/ FgReturnFromDirectory

Spec == Init /\ [][Next]_vars

----------------------------------------------------------------------------
(* What the properties below speak of *)

BuildGraphReturned == builder = "buildGraph" /\ workspaceFolders /\ pc = "returned"

\* buildGraph has finished its traversal without an exception.
Traversed ==
    builder = "buildGraph" /\ workspaceFolders /\ pc \in {"manifest", "prune", "returned"}

HasNode(ns, id) == \E i \in DOMAIN ns : ns[i].id = id
NodesWithId(ns, id) == {i \in DOMAIN ns : ns[i].id = id}

\* The files read and the directories entered so far, as relative paths.
FilesRead == {Relative(RootPath, fsLog[i].path) :
                 i \in {j \in DOMAIN fsLog : fsLog[j].op = "readFile"}}
TextOf(rel) == content[RealPath(rel)]

\* The import statements of a text naming the specifier s.
ImportsOf(text, s) ==
    {i \in DOMAIN text : text[i].kind = "import" /\ text[i].spec = s}
AllImports(text) == {i \in DOMAIN text : text[i].kind = "import"}
Specifiers ==
    UNION {{content[f][i].spec : i \in AllImports(content[f])} : f \in SourceFiles}
ImportedSomewhere(s) == \E f \in FilesRead : ImportsOf(TextOf(f), s) # {}

\* The links whose source is f, and their targets in order.
LinksFrom(ls, f) == SelectSeq(ls, LAMBDA l : l.source = f)
Targets(ls) == [i \in DOMAIN ls |-> ls[i].target]
\* The specifiers of the import statements of a text, in source order.
StatementSpecs(text) ==
    LET stmts == SelectSeq(text, LAMBDA t : t.kind = "import")
    IN  [i \in DOMAIN stmts |-> stmts[i].spec]

\* What the first registration of the id p was: the first call recorded in
\* fsLog that registers p, as the folder entered, the file read, or a
\* specifier the file read imports.
Registers(e, p) ==
    LET rel == Relative(RootPath, e.path)
    IN  \/ rel = p
        \/ e.op = "readFile" /\ ImportsOf(TextOf(rel), p) # {}
FirstRegistration(p) ==
    LET hits == {i \in DOMAIN fsLog : Registers(fsLog[i], p)}
        first == CHOOSE i \in hits : \A j \in hits : i <= j
        e == fsLog[first]
    IN  IF hits = {} THEN "none"
        ELSE IF Relative(RootPath, e.path) = p
             THEN (IF e.op = "readdir" THEN "folder" ELSE "file")
             ELSE "dependency"

----------------------------------------------------------------------------
(* C1  No dangling edge: in the graph buildGraph returns, the source and   *)
(* the target of every link are ids of nodes of the returned node list.    *)
C1_NoDanglingEdge ==
    BuildGraphReturned =>
        \A i \in DOMAIN result.links :
            /\ HasNode(result.nodes, result.links[i].source)
            /\ HasNode(result.nodes, result.links[i].target)

\* A graph with links is returned, and the pruning removed some node.
C1_Witness ==
    /\ BuildGraphReturned
    /\ Len(result.links) >= 2
    /\ Len(result.nodes) < Len(nodes)

(* C2  With a symlink cycle in the tree the traversal still terminates and *)
(* enters each real directory at most once: no two readdirSync calls read  *)
(* the same real directory, and the build does not end in ELOOP.           *)
C2_EachRealDirectoryEnteredOnce ==
    /\ error # "ELOOP"
    /\ \A i, j \in DOMAIN fsLog :
          ( /\ fsLog[i].op = "readdir" /\ fsLog[j].op = "readdir"
            /\ RealPath(Relative(RootPath, fsLog[i].path))
                 = RealPath(Relative(RootPath, fsLog[j].path)) )
          => i = j

(* C3  A package.json that is not valid JSON does not abort the build: the *)
(* build does not end in the parse error, and what it returns is the       *)
(* pruned graph of the traversal alone.                                    *)
C3_MalformedManifestDoesNotAbort ==
    (builder = "buildGraph" /\ packageJson.exists /\ ~packageJson.valid) =>
        /\ error # "SyntaxError"
        /\ pc = "returned" => result = PrunedGraph(nodes, links)

\* buildGraph has returned after registering the dependencies of package.json.
ManifestRead == BuildGraphReturned /\ packageJson.exists /\ packageJson.valid
Declared == {packageJson.dependencies[i] : i \in DOMAIN packageJson.dependencies}
\* The links are those of the import statements of the files read.
OnlyImportLinks(ls) ==
    /\ \A i \in DOMAIN ls :
          ls[i].source \in FilesRead
              /\ ImportsOf(TextOf(ls[i].source), ls[i].target) # {}
    /\ \A f \in FilesRead : Len(LinksFrom(ls, f)) = Cardinality(AllImports(TextOf(f)))

\* p is the relative path of a traversed file that has imports.
IsImportingFile(p) == p \in FilesRead /\ AllImports(TextOf(p)) # {}

(* C4  Manifest injection, as the specification states it: a package of   *)
(* `dependencies` that no traversed file imports has no node in the        *)
(* returned graph; one that some traversed file imports has exactly one    *)
(* node there, with isExternal = true; and the manifest adds no edge.      *)

BelowExcludedDirectory(rel) ==
    \E k \in 1..(Len(rel) - 1) : \E pat \in gitignore.patterns : pat.name = rel[k]
\* The entry itself is named by a pattern that applies to files too.
ExcludedAsFile(rel) ==
    rel # <<>> /\ \E pat \in gitignore.patterns : ~pat.dirOnly /\ pat.name = Last(rel)
Excluded(rel) == BelowExcludedDirectory(rel) \/ ExcludedAsFile(rel)

(* C5  Ignore filtering: no file below a directory that the patterns of   *)
(* .gitignore exclude ("dist/" or "dist") is read or registered as a file  *)
(* node, and no link has such a file as its source; an entry for which the *)
(* matcher signals exclusion is neither read nor entered nor registered.   *)

ImportFree(f) == AllImports(TextOf(f)) = {}
IsTarget(ls, id) == \E i \in DOMAIN ls : ls[i].target = id

\* What is stated of an import-free file f, its node being of the given type.
ImportFreeFileKeeps(f, type) ==
    /\ Cardinality(NodesWithId(nodes, f)) = 1
    /\ \A i \in NodesWithId(nodes, f) :
          nodes[i].type = type /\ nodes[i].imports = <<>>
    /\ LinksFrom(links, f) = <<>>
    /\ pc = "returned" =>
          /\ HasNode(result.nodes, f) <=> IsTarget(result.links, f)
          /\ (tree = {f} => result = EmptyGraph)

(* C7  As the specification states it: a traversed source file without     *)
(* import statements has a node of type `file` with an empty imports list  *)
(* and is the source of no link; it is in the returned graph only if its   *)
(* id is the target of some link; a project of one such file yields the    *)
(* empty graph.                                                            *)

C8_PruneIdempotent ==
    /\ builder = "buildGraph" =>
          PruneNodes(PruneNodes(nodes, links), links) = PruneNodes(nodes, links)
    /\ BuildGraphReturned =>
          /\ PrunedGraph(result.nodes, result.links) = result
          /\ result.links = links

\* A graph with a repeated link was pruned of some node.
C8_Witness ==
    /\ BuildGraphReturned
    /\ Len(result.nodes) < Len(nodes)
    /\ \E i, j \in DOMAIN links : i # j /\ links[i] = links[j]

(* C9  Absent configuration is not an error: with no .gitignore or no      *)
(* package.json below an existing root the build does not fail on the      *)
(* missing file.                                                           *)
C9_AbsentConfigIsNoError ==
    (workspaceFolders /\ (~gitignore.exists \/ ~packageJson.exists)) =>
        error # "ENOENT"

DocumentedExtensions == {".js", ".ts", ".jsx", ".tsx"}
RegularFiles == tree \ (Dirs \cup Symlinks)
NotIgnored(f) == ~Excluded(f) /\ \A k \in DOMAIN f : f[k] # "node_modules"

(* C10  After the traversal every non-ignored regular file with extension  *)
(* .js, .ts, .jsx or .tsx has been read and has a node carrying its        *)
(* import list, with one link per specifier, and no file with another      *)
(* extension has been read.                                                *)

C10_EverySourceExtensionScanned ==
    Traversed =>
        /\ \A f \in RegularFiles :
              (NotIgnored(f) /\ ExtName(Last(f)) \in DocumentedExtensions) =>
                  /\ f \in FilesRead
                  /\ \E i \in DOMAIN nodes :
                        nodes[i].id = f /\ nodes[i].imports = StatementSpecs(TextOf(f))
                  /\ Targets(LinksFrom(links, f)) = StatementSpecs(TextOf(f))
        /\ \A f \in FilesRead : ExtName(Last(f)) \in DocumentedExtensions

(* C11  A file that cannot be read is skipped: the build does not end in   *)
(* the read error, the file is not among the files read and registered,    *)
(* and the traversal goes on to return a graph.                            *)
C11_UnreadableFileSkipped ==
    workspaceFolders =>
        /\ error # "EACCES"
        /\ \A f \in unreadable : f \notin FilesRead

\* An addNode call.
Call(id, type, isExternal) == [id |-> id, type |-> type, isExternal |-> isExternal]

\* The addNode calls that go with one recorded file system call: the folder
\* entered, or the file read followed by the specifiers of its statements.
CallsOf(e) ==
    LET rel == Relative(RootPath, e.path)
        specs == StatementSpecs(TextOf(rel))
    IN  IF e.op = "readdir"
        THEN (IF e.path = RootPath THEN <<>> ELSE <<Call(rel, "folder", FALSE)>>)
        ELSE <<Call(rel, "file", FALSE)>>
                 \o [i \in DOMAIN specs |-> Call(specs[i], "dependency", TRUE)]

RECURSIVE TraversalCalls(_)
TraversalCalls(log) ==
    IF log = <<>> THEN <<>>
    ELSE TraversalCalls(SubSeq(log, 1, Len(log) - 1)) \o CallsOf(log[Len(log)])

\* The addNode calls of the package.json step, once it has run.
ManifestCalls ==
    IF pc \in {"prune", "returned"} /\ packageJson.exists /\ packageJson.valid
    THEN [i \in DOMAIN packageJson.dependencies |->
             Call(packageJson.dependencies[i], "dependency", TRUE)]
    ELSE <<>>

\* All addNode calls of the build so far, in order.
AddNodeCalls == TraversalCalls(fsLog) \o ManifestCalls

\* The calls that are the first for their id, in order.
FirstCalls(calls) ==
    LET firsts == {i \in DOMAIN calls : \A j \in 1..(i - 1) : calls[j].id # calls[i].id}
        RECURSIVE Pick(_)
        Pick(k) ==
            IF k = 0 THEN <<>>
            ELSE IF k \in firsts THEN Append(Pick(k - 1), calls[k]) ELSE Pick(k - 1)
    IN  Pick(Len(calls))

UniqueIds(ns) == \A i, j \in DOMAIN ns : ns[i].id = ns[j].id => i = j

(* C12  addNode is idempotent, first writer wins: at every point of a     *)
(* build no two nodes share an id, the node list is in the order of the    *)
(* first registration of each id, and the kind and isExternal of a node    *)
(* are those of the first addNode call for its id.                         *)
C12_AddNodeFirstWriterWins ==
    /\ builder = "buildGraph" =>
          /\ UniqueIds(nodes)
          /\ UniqueIds(result.nodes)
          /\ [i \in DOMAIN nodes |->
                 Call(nodes[i].id, nodes[i].type, nodes[i].isExternal)]
               = FirstCalls(AddNodeCalls)
    /\ builder = "buildFileGraph" => UniqueIds(fgNodes)

\* The build has returned after addNode was called again for an id with
\* another kind and flag, in the traversal and in the package.json step.
C12_Witness ==
    /\ BuildGraphReturned
    /\ \E i, j \in DOMAIN AddNodeCalls :
          /\ i < j
          /\ AddNodeCalls[i].id = AddNodeCalls[j].id
          /\ AddNodeCalls[i].type = "folder"
          /\ AddNodeCalls[j].type = "dependency"
    /\ \E i, j \in DOMAIN AddNodeCalls :
          /\ i < j
          /\ AddNodeCalls[i].id = AddNodeCalls[j].id
          /\ AddNodeCalls[i].type = "dependency"
          /\ AddNodeCalls[j].type = "file"
    /\ ManifestCalls # <<>>
    /\ Len(FirstCalls(AddNodeCalls)) < Len(AddNodeCalls)

(* C13  In every graph buildGraph returns, a node of kind `folder` or     *)
(* `dependency` has an empty imports list: only `file` nodes carry         *)
(* imports.                                                                *)
C13_OnlyFileNodesCarryImports ==
    BuildGraphReturned =>
        \A i \in DOMAIN result.nodes :
            result.nodes[i].type \in {"folder", "dependency"} =>
                result.nodes[i].imports = <<>>

====
